---- MODULE Spec2Model ----
(***************************************************************************)
(* Camera-session management of app.py: the per-gate dictionaries          *)
(* (active_cameras, camera_queues, camera_threads, camera_captures,        *)
(* camera_last_update, mobile_devices), the camera_worker threads, the     *)
(* request handlers connect_camera / disconnect_camera / get_camera_status *)
(* / register_mobile (Flask runs them on concurrent threads, app.run       *)
(* threaded=True, and app.py takes no lock anywhere) and the               *)
(* check_mobile_camera_health thread.                                      *)
(*                                                                         *)
(* Granularity: a step of a thread is the code it runs between two calls   *)
(* that block (Thread.join, Thread.start, cv2.VideoCapture, cap.read, the  *)
(* detection call, time.sleep); other threads run while a call blocks.     *)
(***************************************************************************)
EXTENDS Integers, Sequences, FiniteSets, TLC

(* ------------------------------ bounds -------------------------------- *)
\* gates requests are sent for (keys of GATE_CONFIG)
Gates == {"A", "B"}
OneGate == {"A"}
\* a gate_id a request may carry that is no key of GATE_CONFIG
UnknownGates == {"Z"}
\* worker threads ever started in a run, and request-handler threads that run
\* connect/disconnect at the same time
MaxWorkers == 3
MaxHandlers == 2
\* the same in the specifications of racing sessions and of a single session
RaceWorkers == 2
SoloWorkers == 1
SoloHandlers == 1
\* connects in the specification of the health monitor
HealthConnects == 1
\* frames a worker reads, and consecutive reads the capture fails
MaxFrames == 2
MaxReadFails == 1
\* consecutive failed reads where the stream either delivers or stalls
NoReadFails == 0
\* the same where decimation and where the retry limit are looked at
ManyFrames == 4
ManyReadFails == 12
\* seconds the clock advances by in one Tick, and the last clock values
ClockStep == 5
MaxTime == 21
ShortTime == 6
\* capacities 1..MaxCapacity and counts 0..MaxCount the classification is tried on
MaxCapacity == 12
MaxCount == 14

Workers == 1..MaxWorkers
Handlers == 1..MaxHandlers

(* ------------------------- program constants -------------------------- *)
TARGET_FPS == 10
PROCESS_EVERY_N_FRAMES == 2
max_retries == 10
STALE_AFTER == 10
HEALTH_PERIOD == 5
HEALTH_BACKOFF == 30

\* GATE_CONFIG[g]['capacity']
GATE_CONFIG ==
  [g \in {"A", "B", "C", "D", "E", "F", "Temple"} |->
     [capacity |-> CASE g = "A" -> 200 [] g = "B" -> 300 [] g = "C" -> 250
                     [] g = "D" -> 350 [] g = "E" -> 300 [] g = "F" -> 400
                     [] OTHER -> 1000]]

\* the gates get_camera_status reports: every key of GATE_CONFIG but 'Temple'
StatusGates == (DOMAIN GATE_CONFIG) \ {"Temple"}

\* counts the detection call returns in the session specifications
DetectCounts == {0, 250}
OneCount == {250}
\* what random.randint(5, 50) returns at its ends, when detection fails
FallbackCounts == {5, 50}

(* --------------------------- python dicts ----------------------------- *)
EmptyDict == [k \in {} |-> 0]
Has(d, k) == k \in DOMAIN d
Put(d, k, v) == [x \in (DOMAIN d) \cup {k} |-> IF x = k THEN v ELSE d[x]]
Del(d, k) == [x \in (DOMAIN d) \ {k} |-> d[x]]

VARIABLES
  active_cameras,      \* gate -> BOOLEAN
  camera_queues,       \* gate -> sequence of published results (the Queue)
  camera_threads,      \* gate -> worker (the Thread object)
  camera_captures,     \* gate -> capture handle (named by the worker that opened it)
  camera_last_update,  \* gate -> clock value
  mobile_devices,      \* gate -> registration
  workers,             \* worker -> the thread's locals and position
  captures,            \* capture handle -> "none" | "open" | "released"
  handlers,            \* request-handler thread -> request and position
  health,              \* the check_mobile_camera_health thread
  now,                 \* time.time(), in seconds
  classified           \* input and output of the status classification

vars == <<active_cameras, camera_queues, camera_threads, camera_captures,
          camera_last_update, mobile_devices, workers, captures, handlers,
          health, now, classified>>

tables == <<active_cameras, camera_queues, camera_threads, camera_captures,
            camera_last_update, mobile_devices>>

(* ----------------------------- workers -------------------------------- *)
NoWorker ==
  [gate |-> "-", source |-> "-", by |-> "-", pc |-> "unborn",
   is_mobile |-> FALSE, retry_count |-> 0, frame_count |-> 0,
   last_processed_time |-> 0, current_time |-> 0,
   detections |-> 0]

Spawned(ws, w) == ws[w].pc # "unborn"
\* Thread.is_alive()
IsAlive(ws, w) == ws[w].pc \notin {"unborn", "stopped"}
NumSpawned(ws) == Cardinality({w \in Workers : Spawned(ws, w)})

\* threading.Thread(target=camera_worker, args=(gate_id, camera_source)).start()
StartThread(ws, g, src, who) ==
  [ws EXCEPT ![NumSpawned(ws) + 1] =
     [NoWorker EXCEPT !.gate = g, !.source = src, !.by = who, !.pc = "start"]]

\* workers started or about to be started (a handler or the monitor waiting in join)
Reserved ==
  Cardinality({h \in Handlers : handlers[h].op = "connect" /\ handlers[h].pc = "join"})
  + (IF health.pc = "join" THEN 1 ELSE 0)
CanSpawn(maxW) == NumSpawned(workers) + Reserved < maxW

(* ------------------------- published results -------------------------- *)
NoTimestamp == 0

\* the dicts camera_worker puts on the queue; `by` names the publishing worker
ErrorResult(w) ==
  [count |-> 0, status |-> "disconnected", frame |-> "", timestamp |-> NoTimestamp,
   error |-> "error", is_mobile |-> FALSE, by |-> w]

\* (mutant) the capacity itself already counts as overcrowded
OccupancyStatusInclusive(people_count, capacity) ==
  IF people_count >= capacity THEN "overcrowded"
  ELSE IF 5 * people_count > 4 * capacity THEN "warning"
  ELSE "normal"

\* people_count > capacity / people_count > capacity * 0.8 (capacity * 0.8 is
\* exact in floating point for the integer capacities used, so 5n > 4C)
OccupancyStatus(people_count, capacity) ==
  IF people_count > capacity THEN "overcrowded"
  ELSE IF 5 * people_count > 4 * capacity THEN "warning"
  ELSE "normal"

FrameResult(w, g, people_count, frame_data, current_time, is_mobile) ==
  [count |-> people_count,
   status |-> OccupancyStatus(people_count, GATE_CONFIG[g].capacity),
   frame |-> frame_data, timestamp |-> current_time, error |-> "",
   is_mobile |-> is_mobile, by |-> w]

\* (mutant) the item put on the queue twice
PutTwiceIfQueue(qs, g, item) ==
  IF Has(qs, g) THEN [qs EXCEPT ![g] = Append(Append(@, item), item)] ELSE qs

\* if gate_id in camera_queues: camera_queues[gate_id].put(item)
PutIfQueue(qs, g, item) ==
  IF Has(qs, g) THEN [qs EXCEPT ![g] = Append(@, item)] ELSE qs

(* --------------------------- camera_worker ---------------------------- *)
\* the finally block: release and forget whatever capture the gate has on record
FinallyCaptures(cc, g) == IF Has(cc, g) THEN Del(cc, g) ELSE cc
FinallyReleased(cc, cs, g) ==
  IF Has(cc, g) THEN [cs EXCEPT ![cc[g]] = "released"] ELSE cs

\* the worker leaves camera_worker through its finally block
WorkerExit(w, g) ==
  /\ camera_captures' = FinallyCaptures(camera_captures, g)
  /\ captures' = FinallyReleased(camera_captures, captures, g)

\* 'mobile' with a registration, a webcam index or a valid URL can be opened;
\* anything else ('mobile' without registration, an invalid URL) cannot
UsesMobile(md, g, src) == Has(md, g) /\ src = "mobile"
Resolves(md, g, src) == UsesMobile(md, g, src) \/ src \in {"index", "url"}

\* resolve the source and open it (cv2.VideoCapture blocks); on success record
\* the capture, on failure publish the error and return
WorkerStart(w) ==
  LET wk == workers[w]
      g == wk.gate
  IN
  /\ wk.pc = "start"
  /\ \E opened \in BOOLEAN :
       IF Resolves(mobile_devices, g, wk.source) /\ opened
         THEN /\ camera_captures' = Put(camera_captures, g, w)
              /\ captures' = [captures EXCEPT ![w] = "open"]
              /\ workers' = [workers EXCEPT
                   ![w].pc = "loop",
                   ![w].is_mobile = UsesMobile(mobile_devices, g, wk.source)]
              /\ UNCHANGED camera_queues
         ELSE /\ camera_queues' = PutIfQueue(camera_queues, g, ErrorResult(w))
              /\ workers' = [workers EXCEPT ![w].pc = "stopped"]
              /\ WorkerExit(w, g)
  /\ UNCHANGED <<active_cameras, camera_threads, camera_last_update,
                 mobile_devices, handlers, health, now, classified>>

\* while gate_id in active_cameras and active_cameras[gate_id]
SessionActive(ac, g) == Has(ac, g) /\ ac[g]

\* current_time - last_processed_time < 1.0 / TARGET_FPS
AheadOfTargetFps(current_time, last_processed_time) ==
  TARGET_FPS * (current_time - last_processed_time) < 1

\* the loop test and the rate check that follow a sleep
WorkerLoop(w) ==
  LET wk == workers[w]
      g == wk.gate
  IN
  /\ wk.pc = "loop"
  /\ IF SessionActive(active_cameras, g)
       THEN /\ workers' =
                 IF AheadOfTargetFps(now, wk.last_processed_time)
                   THEN workers
                   ELSE [workers EXCEPT ![w].pc = "read", ![w].current_time = now]
            /\ UNCHANGED <<camera_captures, captures>>
       ELSE /\ workers' = [workers EXCEPT ![w].pc = "stopped"]
            /\ WorkerExit(w, g)
  /\ UNCHANGED <<active_cameras, camera_queues, camera_threads, camera_last_update,
                 mobile_devices, handlers, health, now, classified>>

\* (mutant) the limit compared with >=
RetriesExhaustedAtLimit(retry_count) == retry_count >= max_retries

\* if retry_count > max_retries
RetriesExhausted(retry_count) == retry_count > max_retries

\* (mutant) the decimation test taken on the remainder 1
ProcessOddFrames(frame_count) == frame_count % PROCESS_EVERY_N_FRAMES = 1

\* if frame_count % PROCESS_EVERY_N_FRAMES == 0
ProcessThisFrame(frame_count) == frame_count % PROCESS_EVERY_N_FRAMES = 0

\* ret, frame = cap.read() and what follows it up to the next blocking call
WorkerRead(w, maxFrames, maxFails) ==
  LET wk == workers[w]
      g == wk.gate
  IN
  /\ wk.pc = "read"
  /\ \/ \* ret is true
        /\ wk.frame_count < maxFrames
        /\ workers' = [workers EXCEPT
             ![w].retry_count = 0,
             ![w].frame_count = wk.frame_count + 1,
             ![w].detections = IF ProcessThisFrame(wk.frame_count + 1)
                                 THEN wk.detections + 1 ELSE wk.detections,
             ![w].pc = IF ProcessThisFrame(wk.frame_count + 1)
                         THEN "detect" ELSE "loop"]
        /\ UNCHANGED <<camera_queues, camera_captures, captures>>
     \/ \* ret is false
        /\ wk.retry_count < maxFails
        /\ IF RetriesExhausted(wk.retry_count + 1)
             THEN /\ camera_queues' = PutIfQueue(camera_queues, g, ErrorResult(w))
                  /\ workers' = [workers EXCEPT
                       ![w].retry_count = wk.retry_count + 1,
                       ![w].pc = "stopped"]
                  /\ WorkerExit(w, g)
             ELSE /\ workers' = [workers EXCEPT
                       ![w].retry_count = wk.retry_count + 1,
                       ![w].pc = "loop"]
                  /\ UNCHANGED <<camera_queues, camera_captures, captures>>
  /\ UNCHANGED <<active_cameras, camera_threads, camera_last_update,
                 mobile_devices, handlers, health, now, classified>>

\* what the preview encoding yields: the data URL, or '' when encoding fails
FrameData == {"jpeg", ""}
OnePreview == {"jpeg"}

\* detect_people_yolov8(frame) returns; classify, encode and publish. For a
\* gate id that is no key of GATE_CONFIG, GATE_CONFIG[gate_id] raises KeyError:
\* the except block publishes the error and the worker leaves through finally
WorkerDetect(w, counts, previews) ==
  LET wk == workers[w]
      g == wk.gate
  IN
  /\ wk.pc = "detect"
  /\ \E people_count \in counts, frame_data \in previews :
       IF Has(camera_queues, g)
         THEN IF g \in DOMAIN GATE_CONFIG
                THEN /\ camera_queues' = PutIfQueue(camera_queues, g,
                          FrameResult(w, g, people_count, frame_data,
                                      wk.current_time, wk.is_mobile))
                     /\ workers' = [workers EXCEPT
                          ![w].last_processed_time = wk.current_time,
                          ![w].pc = "loop"]
                     /\ UNCHANGED <<camera_captures, captures>>
                ELSE /\ camera_queues' = PutIfQueue(camera_queues, g, ErrorResult(w))
                     /\ workers' = [workers EXCEPT ![w].pc = "stopped"]
                     /\ WorkerExit(w, g)
         ELSE /\ workers' = [workers EXCEPT ![w].pc = "loop"]
              /\ UNCHANGED <<camera_queues, camera_captures, captures>>
  /\ UNCHANGED <<active_cameras, camera_threads, camera_last_update,
                 mobile_devices, handlers, health, now, classified>>

(* -------------------------- request handlers -------------------------- *)
Idle ==
  [op |-> "idle", pc |-> "-", gate |-> "-", camera_source |-> "-",
   stream_url |-> FALSE, thread |-> 0, todo |-> {}, overlapped |-> FALSE]

\* the thread a new request runs on: the first idle one (which idle thread
\* serves a request makes no difference)
FreeHandler(h) ==
  /\ handlers[h].op = "idle"
  /\ \A k \in Handlers : k < h => handlers[k].op # "idle"

\* the request bodies sent to /connect_camera: the camera source, and whether
\* camera_type is 'mobile' with a stream_url
ConnectRequests ==
  {[camera_source |-> "index", stream_url |-> FALSE],
   [camera_source |-> "invalid", stream_url |-> FALSE],
   [camera_source |-> "mobile", stream_url |-> FALSE],
   [camera_source |-> "mobile", stream_url |-> TRUE]}

\* mobile_devices[gate_id] = {'stream_url': ..., 'camera_type': 'mobile'}
Registration == [stream_url |-> "url"]

\* if gate_id in camera_threads and camera_threads[gate_id].is_alive()
MustJoin(g) == Has(camera_threads, g) /\ IsAlive(workers, camera_threads[g])

\* a Connect marks every Disconnect("all") in progress as overlapped by it
NoteConnect(hs) ==
  [k \in Handlers |->
     IF hs[k].op = "disconnect_all" THEN [hs[k] EXCEPT !.overlapped = TRUE]
     ELSE hs[k]]

\* connect_camera after the stop: new queue, flag set, last update, the mobile
\* registration, and the worker thread started (Thread.start blocks)
ConnectAllocate(h, g, camera_source, stream_url, ws) ==
  /\ camera_queues' = Put(camera_queues, g, << >>)
  /\ active_cameras' = Put(active_cameras, g, TRUE)
  /\ camera_last_update' = Put(camera_last_update, g, now)
  /\ mobile_devices' =
       IF stream_url THEN Put(mobile_devices, g, Registration) ELSE mobile_devices
  /\ workers' = StartThread(ws, g, IF stream_url THEN "mobile" ELSE camera_source,
                            "connect")
  /\ handlers' = [NoteConnect(handlers) EXCEPT ![h] =
       [Idle EXCEPT !.op = "connect", !.pc = "record", !.gate = g,
                    !.camera_source = camera_source, !.stream_url = stream_url,
                    !.thread = NumSpawned(ws) + 1]]

\* connect_camera up to the join, or up to Thread.start when nothing is joined
ConnectBegin(h, g, req, maxW) ==
  /\ FreeHandler(h)
  /\ CanSpawn(maxW)
  /\ IF Has(active_cameras, g) /\ MustJoin(g)
       THEN /\ active_cameras' = Put(active_cameras, g, FALSE)
            /\ UNCHANGED workers
            /\ handlers' = [NoteConnect(handlers) EXCEPT ![h] =
                 [Idle EXCEPT !.op = "connect", !.pc = "join", !.gate = g,
                              !.camera_source = req.camera_source,
                              !.stream_url = req.stream_url,
                              !.thread = camera_threads[g]]]
            /\ UNCHANGED <<camera_queues, camera_last_update, mobile_devices>>
       ELSE ConnectAllocate(h, g, req.camera_source, req.stream_url,
                            workers)
  /\ UNCHANGED <<camera_threads, camera_captures, captures, health, now,
                 classified>>

\* camera_threads[gate_id].join(timeout=2.0) returns, the worker ended or not
ConnectJoin(h) ==
  /\ handlers[h].op = "connect"
  /\ handlers[h].pc = "join"
  /\ ConnectAllocate(h, handlers[h].gate, handlers[h].camera_source,
                     handlers[h].stream_url, workers)
  /\ UNCHANGED <<camera_threads, camera_captures, captures, health, now,
                 classified>>

\* camera_threads[gate_id] = thread, and the response
ConnectRecord(h) ==
  /\ handlers[h].op = "connect"
  /\ handlers[h].pc = "record"
  /\ camera_threads' = Put(camera_threads, handlers[h].gate, handlers[h].thread)
  /\ handlers' = [handlers EXCEPT ![h] = Idle]
  /\ UNCHANGED <<active_cameras, camera_queues, camera_captures, captures,
                 camera_last_update, mobile_devices, workers, health, now,
                 classified>>

\* register_mobile with a valid stream_url
RegisterMobile(g) ==
  /\ ~Has(mobile_devices, g)
  /\ mobile_devices' = Put(mobile_devices, g, Registration)
  /\ UNCHANGED <<active_cameras, camera_queues, camera_threads, camera_captures,
                 camera_last_update, workers, captures, handlers, health, now,
                 classified>>

\* (mutant) the clean-up forgets the last update time of every gate
CleanUpEverywhere(g) ==
  /\ camera_queues' = Del(camera_queues, g)
  /\ camera_threads' = Del(camera_threads, g)
  /\ active_cameras' = Del(active_cameras, g)
  /\ captures' = IF Has(camera_captures, g)
                   THEN [captures EXCEPT ![camera_captures[g]] = "released"]
                   ELSE captures
  /\ camera_captures' = Del(camera_captures, g)
  /\ camera_last_update' = EmptyDict

\* the "Clean up" block of disconnect_camera for one gate
CleanUp(g) ==
  /\ camera_queues' = Del(camera_queues, g)
  /\ camera_threads' = Del(camera_threads, g)
  /\ active_cameras' = Del(active_cameras, g)
  /\ captures' = IF Has(camera_captures, g)
                   THEN [captures EXCEPT ![camera_captures[g]] = "released"]
                   ELSE captures
  /\ camera_captures' = Del(camera_captures, g)
  /\ camera_last_update' = Del(camera_last_update, g)

\* disconnect_camera for one gate, up to the join or to the response
DisconnectBegin(h, g) ==
  /\ FreeHandler(h)
  /\ Has(active_cameras, g)
  /\ UNCHANGED workers
  /\ IF MustJoin(g)
       THEN /\ active_cameras' = Put(active_cameras, g, FALSE)
            /\ handlers' = [handlers EXCEPT ![h] =
                 [Idle EXCEPT !.op = "disconnect", !.pc = "join", !.gate = g,
                              !.thread = camera_threads[g]]]
            /\ UNCHANGED <<camera_queues, camera_threads, camera_captures,
                           captures, camera_last_update>>
       ELSE /\ CleanUp(g)
            /\ UNCHANGED handlers
  /\ UNCHANGED <<mobile_devices, health, now, classified>>

\* the join returns (the worker ended or 2 s passed); clean up and respond
DisconnectJoin(h) ==
  /\ handlers[h].op = "disconnect"
  /\ handlers[h].pc = "join"
  /\ CleanUp(handlers[h].gate)
  /\ handlers' = [handlers EXCEPT ![h] = Idle]
  /\ UNCHANGED <<mobile_devices, workers, health, now, classified>>

\* disconnect_camera with gate_id 'all': list(active_cameras.keys())
DisconnectAllBegin(h) ==
  /\ FreeHandler(h)
  /\ handlers' = [handlers EXCEPT ![h] =
       [Idle EXCEPT !.op = "disconnect_all", !.pc = "next",
                    !.todo = DOMAIN active_cameras,
                    !.overlapped = \E k \in Handlers : handlers[k].op = "connect"]]
  /\ UNCHANGED <<active_cameras, camera_queues, camera_threads, camera_captures,
                 camera_last_update, mobile_devices, workers, captures, health,
                 now, classified>>

\* one pass of the for loop, up to the join or through the clean up
DisconnectAllNext(h) ==
  /\ handlers[h].op = "disconnect_all"
  /\ handlers[h].pc = "next"
  /\ \E gid \in handlers[h].todo :
       /\ UNCHANGED workers
       /\ IF MustJoin(gid)
            THEN /\ active_cameras' = Put(active_cameras, gid, FALSE)
                 /\ handlers' = [handlers EXCEPT ![h].pc = "join", ![h].gate = gid,
                                                 ![h].thread = camera_threads[gid]]
                 /\ UNCHANGED <<camera_queues, camera_threads, camera_captures,
                                captures, camera_last_update>>
            ELSE /\ CleanUp(gid)
                 /\ handlers' = [handlers EXCEPT ![h].todo = @ \ {gid}]
  /\ UNCHANGED <<mobile_devices, health, now, classified>>

DisconnectAllJoin(h) ==
  /\ handlers[h].op = "disconnect_all"
  /\ handlers[h].pc = "join"
  /\ CleanUp(handlers[h].gate)
  /\ handlers' = [handlers EXCEPT ![h].pc = "next", ![h].gate = "-",
                                  ![h].thread = 0,
                                  ![h].todo = @ \ {handlers[h].gate}]
  /\ UNCHANGED <<mobile_devices, workers, health, now, classified>>

\* the loop is over: 'All cameras disconnected'
DisconnectAllReturn(h) ==
  /\ handlers[h].op = "disconnect_all"
  /\ handlers[h].pc = "next"
  /\ handlers[h].todo = {}
  /\ handlers' = [handlers EXCEPT ![h] = Idle]
  /\ UNCHANGED <<active_cameras, camera_queues, camera_threads, camera_captures,
                 camera_last_update, mobile_devices, workers, captures, health,
                 now, classified>>

(* ------------------------- get_camera_status -------------------------- *)
\* (mutant) 'connected' reported only while a worker of the gate is running
DefaultStatusLive(g) ==
  [connected |-> /\ SessionActive(active_cameras, g)
                 /\ \E w \in Workers :
                      IsAlive(workers, w) /\ workers[w].gate = g,
   count |-> 0,
   status |-> "disconnected", frame |-> "", error |-> "",
   timestamp |-> NoTimestamp, by |-> 0]

\* status[gate_id] before the queue is looked at
DefaultStatus(g) ==
  [connected |-> SessionActive(active_cameras, g), count |-> 0,
   status |-> "disconnected", frame |-> "", error |-> "",
   timestamp |-> NoTimestamp, by |-> 0]

\* if gate_id in camera_queues and not camera_queues[gate_id].empty()
HasResult(g) == Has(camera_queues, g) /\ camera_queues[g] # << >>

\* status[gate_id] as get_camera_status returns it when called now
StatusReply(g) ==
  IF HasResult(g)
    THEN LET data == Head(camera_queues[g]) IN
         [DefaultStatus(g) EXCEPT
            !.count = data.count, !.status = data.status,
            !.frame = data.frame, !.error = data.error,
            !.timestamp = IF data.timestamp = NoTimestamp
                            THEN now ELSE data.timestamp,
            !.by = data.by]
    ELSE DefaultStatus(g)

\* (mutant) the last update time set outside the if, for every gate polled
GetCameraStatusTouching(g) ==
  /\ camera_queues' = IF HasResult(g) THEN [camera_queues EXCEPT ![g] = Tail(@)]
                      ELSE camera_queues
  /\ camera_last_update' = Put(camera_last_update, g, now)
  /\ UNCHANGED <<active_cameras, camera_threads, camera_captures, mobile_devices,
                 workers, captures, handlers, health, now, classified>>

\* (mutant) the poll takes every waiting result of the gate off the queue
GetCameraStatusDraining(g) ==
  /\ IF HasResult(g)
       THEN /\ camera_queues' = [camera_queues EXCEPT ![g] = << >>]
            /\ camera_last_update' = Put(camera_last_update, g, now)
       ELSE UNCHANGED <<camera_queues, camera_last_update>>
  /\ UNCHANGED <<active_cameras, camera_threads, camera_captures, mobile_devices,
                 workers, captures, handlers, health, now, classified>>

\* what the loop body of get_camera_status does to the dictionaries for one gate:
\* get_nowait() and camera_last_update[gate_id] = time.time()
GetCameraStatus(g) ==
  /\ IF HasResult(g)
       THEN /\ camera_queues' = [camera_queues EXCEPT ![g] = Tail(@)]
            /\ camera_last_update' = Put(camera_last_update, g, now)
       ELSE UNCHANGED <<camera_queues, camera_last_update>>
  /\ UNCHANGED <<active_cameras, camera_threads, camera_captures, mobile_devices,
                 workers, captures, handlers, health, now, classified>>

(* -------------------- check_mobile_camera_health ---------------------- *)
\* the two conditions of the health check for one gate
NeedsRestart(g) ==
  /\ SessionActive(active_cameras, g)
  /\ Has(camera_queues, g) /\ camera_queues[g] = << >>
  /\ Has(camera_last_update, g) /\ now - camera_last_update[g] > STALE_AFTER

\* "Restart the camera": new queue, flag set, worker thread started
HealthRestart(g, ws) ==
  /\ camera_queues' = Put(camera_queues, g, << >>)
  /\ active_cameras' = Put(active_cameras, g, TRUE)
  /\ workers' = StartThread(ws, g, "mobile", "health")
  /\ health' = [health EXCEPT !.pc = "record", !.gate = g,
                              !.thread = NumSpawned(ws) + 1]

\* the sleep is over: for gate_id in list(mobile_devices.keys())
HealthWake ==
  /\ health.pc = "sleep"
  /\ now >= health.wake
  /\ health' = [health EXCEPT !.pc = "pass", !.todo = DOMAIN mobile_devices]
  /\ UNCHANGED <<active_cameras, camera_queues, camera_threads, camera_captures,
                 camera_last_update, mobile_devices, workers, captures, handlers,
                 now, classified>>

\* the check of one gate, up to the join or to Thread.start
HealthCheck(maxW) ==
  /\ health.pc = "pass"
  /\ \E g \in health.todo :
       IF NeedsRestart(g)
         THEN /\ CanSpawn(maxW)
              /\ IF MustJoin(g)
                   THEN /\ active_cameras' = Put(active_cameras, g, FALSE)
                        /\ health' = [health EXCEPT !.pc = "join", !.gate = g,
                                                    !.thread = camera_threads[g]]
                        /\ UNCHANGED <<camera_queues, workers>>
                   ELSE HealthRestart(g, workers)
         ELSE /\ health' = [health EXCEPT !.todo = @ \ {g}]
              /\ UNCHANGED <<active_cameras, camera_queues, workers>>
  /\ UNCHANGED <<camera_threads, camera_captures, camera_last_update,
                 mobile_devices, captures, handlers, now, classified>>

\* camera_threads[gate_id].join(timeout=1.0) returns
HealthJoin ==
  /\ health.pc = "join"
  /\ HealthRestart(health.gate, workers)
  /\ UNCHANGED <<camera_threads, camera_captures, camera_last_update,
                 mobile_devices, captures, handlers, now, classified>>

\* camera_threads[gate_id] = thread
HealthRecord ==
  /\ health.pc = "record"
  /\ camera_threads' = Put(camera_threads, health.gate, health.thread)
  /\ health' = [health EXCEPT !.pc = "pass", !.gate = "-", !.thread = 0,
                              !.todo = @ \ {health.gate}]
  /\ UNCHANGED <<active_cameras, camera_queues, camera_captures,
                 camera_last_update, mobile_devices, workers, captures, handlers,
                 now, classified>>

\* the for loop is over: time.sleep(5)
HealthSleep ==
  /\ health.pc = "pass"
  /\ health.todo = {}
  /\ health' = [health EXCEPT !.pc = "sleep", !.wake = now + HEALTH_PERIOD]
  /\ UNCHANGED <<active_cameras, camera_queues, camera_threads, camera_captures,
                 camera_last_update, mobile_devices, workers, captures, handlers,
                 now, classified>>

\* thread.start() raises (RuntimeError: can't start new thread) in the restart of
\* gate g: the queue and the flag are already set, the exception leaves the for
\* loop, is logged, and the monitor sleeps 30 s
HealthStartFails ==
  /\ \E g \in health.todo :
       /\ \/ health.pc = "pass" /\ NeedsRestart(g) /\ ~MustJoin(g)
          \/ health.pc = "join" /\ g = health.gate
       /\ camera_queues' = Put(camera_queues, g, << >>)
       /\ active_cameras' = Put(active_cameras, g, TRUE)
       \* todo keeps the gates the pass did not get to
       /\ health' = [health EXCEPT !.pc = "sleep", !.wake = now + HEALTH_BACKOFF,
                                   !.gate = "-", !.thread = 0, !.todo = @ \ {g}]
  /\ UNCHANGED <<camera_threads, camera_captures, camera_last_update,
                 mobile_devices, workers, captures, handlers, now, classified>>

(* ------------------------------- time --------------------------------- *)
Tick(maxTime) ==
  /\ now + ClockStep <= maxTime
  /\ now' = now + ClockStep
  /\ UNCHANGED <<active_cameras, camera_queues, camera_threads, camera_captures,
                 camera_last_update, mobile_devices, workers, captures, handlers,
                 health, classified>>

\* time.time() is later by more than the staleness limit of the health monitor
Elapse(maxTime) ==
  /\ now + STALE_AFTER + 1 <= maxTime
  /\ now' = now + STALE_AFTER + 1
  /\ UNCHANGED <<active_cameras, camera_queues, camera_threads, camera_captures,
                 camera_last_update, mobile_devices, workers, captures, handlers,
                 health, classified>>

(* --------------------------- specification ---------------------------- *)
NotClassified == [capacity |-> 0, count |-> 0, status |-> "-"]

\* the module level of app.py has run: empty dictionaries, no worker, the health
\* thread about to make its first pass
InitProgram ==
  /\ active_cameras = EmptyDict
  /\ camera_queues = EmptyDict
  /\ camera_threads = EmptyDict
  /\ camera_captures = EmptyDict
  /\ camera_last_update = EmptyDict
  /\ mobile_devices = EmptyDict
  /\ workers = [w \in Workers |-> NoWorker]
  /\ captures = [w \in Workers |-> "none"]
  /\ handlers = [h \in Handlers |-> Idle]
  /\ health = [pc |-> "sleep", wake |-> 1, todo |-> {}, gate |-> "-", thread |-> 0]
  /\ now = 1

Init ==
  /\ InitProgram
  /\ classified = NotClassified

\* the status classification applied to the chosen capacity and count
Classify ==
  /\ classified.status = "-"
  /\ classified' = [classified EXCEPT
       !.status = OccupancyStatus(classified.count, classified.capacity)]
  /\ UNCHANGED <<active_cameras, camera_queues, camera_threads, camera_captures,
                 camera_last_update, mobile_devices, workers, captures, handlers,
                 health, now>>

WebcamRequest == [camera_source |-> "index", stream_url |-> FALSE]
MobileRequest == [camera_source |-> "mobile", stream_url |-> TRUE]

\* Spec: sessions racing on the gates: concurrent connects and disconnects,
\* status polls, the workers
Next ==
  \/ \E h \in Handlers, g \in Gates :
       ConnectBegin(h, g, WebcamRequest, RaceWorkers)
  \/ \E h \in Handlers : ConnectJoin(h)
  \/ \E h \in Handlers : ConnectRecord(h)
  \/ \E h \in Handlers, g \in Gates : DisconnectBegin(h, g)
  \/ \E h \in Handlers : DisconnectJoin(h)
  \/ \E g \in Gates : GetCameraStatus(g)
  \/ \E w \in Workers : WorkerStart(w)
  \/ \E w \in Workers : WorkerLoop(w)
  \/ \E w \in Workers : WorkerRead(w, MaxFrames, MaxReadFails)
  \/ \E w \in Workers : WorkerDetect(w, DetectCounts, FrameData)

Spec == Init /\ [][Next]_vars

\* SpecSerial: requests handled one after the other on one gate, a reconnect
\* replacing the session
NextSerial ==
  \/ \E h \in 1..SoloHandlers, g \in OneGate :
       ConnectBegin(h, g, WebcamRequest, RaceWorkers)
  \/ \E h \in Handlers : ConnectJoin(h)
  \/ \E h \in Handlers : ConnectRecord(h)
  \/ \E h \in 1..SoloHandlers, g \in OneGate : DisconnectBegin(h, g)
  \/ \E h \in Handlers : DisconnectJoin(h)
  \/ \E g \in OneGate : GetCameraStatus(g)
  \/ \E w \in Workers : WorkerStart(w)
  \/ \E w \in Workers : WorkerLoop(w)
  \/ \E w \in Workers : WorkerRead(w, MaxFrames, MaxReadFails)
  \/ \E w \in Workers : WorkerDetect(w, DetectCounts, FrameData)

SpecSerial == Init /\ [][NextSerial]_vars

\* SpecAll: connects and Disconnect("all") on the gates, one request at a time
NextAll ==
  \/ \E h \in 1..SoloHandlers, g \in Gates :
       ConnectBegin(h, g, WebcamRequest, RaceWorkers)
  \/ \E h \in Handlers : ConnectJoin(h)
  \/ \E h \in Handlers : ConnectRecord(h)
  \/ \E h \in 1..SoloHandlers : DisconnectAllBegin(h)
  \/ \E h \in Handlers : DisconnectAllNext(h)
  \/ \E h \in Handlers : DisconnectAllJoin(h)
  \/ \E h \in Handlers : DisconnectAllReturn(h)
  \/ \E w \in Workers : WorkerStart(w)
  \/ \E w \in Workers : WorkerLoop(w)
  \/ \E w \in Workers : WorkerRead(w, MaxFrames, MaxReadFails)
  \/ \E w \in Workers : WorkerDetect(w, DetectCounts, FrameData)

SpecAll == Init /\ [][NextAll]_vars

\* SpecHealth: a mobile session connected once, the health monitor and the clock
NextHealth ==
  \/ \E h \in 1..SoloHandlers, g \in OneGate :
       ConnectBegin(h, g, MobileRequest, HealthConnects)
  \/ \E h \in Handlers : ConnectRecord(h)
  \/ \E g \in OneGate : GetCameraStatus(g)
  \/ \E w \in Workers : WorkerStart(w)
  \/ \E w \in Workers : WorkerLoop(w)
  \/ \E w \in Workers : WorkerRead(w, MaxFrames, NoReadFails)
  \/ \E w \in Workers : WorkerDetect(w, OneCount, OnePreview)
  \/ HealthWake
  \/ HealthCheck(MaxWorkers)
  \/ HealthJoin
  \/ HealthRecord
  \/ HealthSleep
  \/ Tick(MaxTime)

SpecHealth == Init /\ [][NextHealth]_vars

\* SpecWorker: one session at a time on one gate, many frames, the clock
NextWorker ==
  \/ \E h \in 1..SoloHandlers, g \in OneGate :
       ConnectBegin(h, g, WebcamRequest, SoloWorkers)
  \/ \E h \in Handlers : ConnectRecord(h)
  \/ \E h \in 1..SoloHandlers, g \in OneGate : DisconnectBegin(h, g)
  \/ \E h \in Handlers : DisconnectJoin(h)
  \/ \E w \in Workers : WorkerStart(w)
  \/ \E w \in Workers : WorkerLoop(w)
  \/ \E w \in Workers : WorkerRead(w, ManyFrames, MaxReadFails)
  \/ \E w \in Workers : WorkerDetect(w, OneCount, OnePreview)
  \/ Tick(ShortTime)

SpecWorker == Init /\ [][NextWorker]_vars

\* SpecRetry: one session at a time on one gate, reads failing up to the limit
NextRetry ==
  \/ \E h \in 1..SoloHandlers, g \in OneGate :
       ConnectBegin(h, g, WebcamRequest, SoloWorkers)
  \/ \E h \in Handlers : ConnectRecord(h)
  \/ \E h \in 1..SoloHandlers, g \in OneGate : DisconnectBegin(h, g)
  \/ \E h \in Handlers : DisconnectJoin(h)
  \/ \E g \in OneGate : GetCameraStatus(g)
  \/ \E w \in Workers : WorkerStart(w)
  \/ \E w \in Workers : WorkerLoop(w)
  \/ \E w \in Workers : WorkerRead(w, MaxFrames, ManyReadFails)
  \/ \E w \in Workers : WorkerDetect(w, DetectCounts, FrameData)

SpecRetry == Init /\ [][NextRetry]_vars

\* SpecPoll: every kind of connect request, registrations and status polls on
\* the gates, one session at a time
NextPoll ==
  \/ \E h \in 1..SoloHandlers, g \in Gates, req \in ConnectRequests :
       ConnectBegin(h, g, req, SoloWorkers)
  \/ \E h \in Handlers : ConnectRecord(h)
  \/ \E g \in Gates : RegisterMobile(g)
  \/ \E g \in Gates : GetCameraStatus(g)
  \/ \E w \in Workers : WorkerStart(w)
  \/ \E w \in Workers : WorkerLoop(w)
  \/ \E w \in Workers : WorkerRead(w, MaxFrames, NoReadFails)
  \/ \E w \in Workers : WorkerDetect(w, OneCount, OnePreview)

SpecPoll == Init /\ [][NextPoll]_vars

\* SpecStream: one session on one gate publishing several results while the
\* clock advances and the consumer polls
NextStream ==
  \/ \E h \in 1..SoloHandlers, g \in OneGate :
       ConnectBegin(h, g, WebcamRequest, SoloWorkers)
  \/ \E h \in Handlers : ConnectRecord(h)
  \/ \E g \in OneGate : GetCameraStatus(g)
  \/ \E w \in Workers : WorkerStart(w)
  \/ \E w \in Workers : WorkerLoop(w)
  \/ \E w \in Workers : WorkerRead(w, ManyFrames, NoReadFails)
  \/ \E w \in Workers : WorkerDetect(w, DetectCounts, OnePreview)
  \/ Tick(ShortTime)

SpecStream == Init /\ [][NextStream]_vars

\* SpecOpen: every kind of connect request on one gate, registrations, the
\* disconnect and the polls, one session at a time
NextOpen ==
  \/ \E h \in 1..SoloHandlers, g \in OneGate, req \in ConnectRequests :
       ConnectBegin(h, g, req, SoloWorkers)
  \/ \E h \in Handlers : ConnectRecord(h)
  \/ \E g \in OneGate : RegisterMobile(g)
  \/ \E h \in 1..SoloHandlers, g \in OneGate : DisconnectBegin(h, g)
  \/ \E h \in Handlers : DisconnectJoin(h)
  \/ \E g \in OneGate : GetCameraStatus(g)
  \/ \E w \in Workers : WorkerStart(w)
  \/ \E w \in Workers : WorkerLoop(w)
  \/ \E w \in Workers : WorkerRead(w, MaxFrames, NoReadFails)
  \/ \E w \in Workers : WorkerDetect(w, OneCount, OnePreview)

SpecOpen == Init /\ [][NextOpen]_vars

\* SpecMonitor: registrations on the gates, a session with a fixed source on
\* one of them, the health monitor with its failure path, and the clock
NextMonitor ==
  \/ \E g \in Gates : RegisterMobile(g)
  \/ \E h \in 1..SoloHandlers, g \in OneGate :
       ConnectBegin(h, g, WebcamRequest, HealthConnects)
  \/ \E h \in Handlers : ConnectRecord(h)
  \/ \E w \in Workers : WorkerStart(w)
  \/ \E w \in Workers : WorkerLoop(w)
  \/ \E w \in Workers : WorkerRead(w, MaxFrames, NoReadFails)
  \/ \E w \in Workers : WorkerDetect(w, OneCount, OnePreview)
  \/ HealthWake
  \/ HealthCheck(RaceWorkers)
  \/ HealthJoin
  \/ HealthRecord
  \/ HealthSleep
  \/ HealthStartFails
  \/ Tick(MaxTime)

SpecMonitor == Init /\ [][NextMonitor]_vars

\* SpecUnknown: sessions requested for a gate of GATE_CONFIG and for a gate id
\* that is not one, detection and preview encoding failing or not
NextUnknown ==
  \/ \E h \in 1..SoloHandlers, g \in OneGate \cup UnknownGates :
       ConnectBegin(h, g, WebcamRequest, RaceWorkers)
  \/ \E h \in Handlers : ConnectJoin(h)
  \/ \E h \in Handlers : ConnectRecord(h)
  \/ \E g \in OneGate : GetCameraStatus(g)
  \/ \E w \in Workers : WorkerStart(w)
  \/ \E w \in Workers : WorkerLoop(w)
  \/ \E w \in Workers : WorkerRead(w, MaxFrames, MaxReadFails)
  \/ \E w \in Workers : WorkerDetect(w, DetectCounts \cup FallbackCounts, FrameData)

SpecUnknown == Init /\ [][NextUnknown]_vars

\* two gates: a webcam session on one gate with connects, reconnects and
\* disconnects, a mobile session on the other with connects, reconnects and the
\* health monitor's restarts
NextFrame ==
  \/ \E h \in 1..SoloHandlers, g \in OneGate :
       ConnectBegin(h, g, WebcamRequest, RaceWorkers)
  \/ \E h \in 1..SoloHandlers, g \in Gates \ OneGate :
       ConnectBegin(h, g, MobileRequest, RaceWorkers)
  \/ \E h \in Handlers : ConnectJoin(h)
  \/ \E h \in Handlers : ConnectRecord(h)
  \/ \E h \in 1..SoloHandlers, g \in OneGate : DisconnectBegin(h, g)
  \/ \E h \in Handlers : DisconnectJoin(h)
  \/ \E w \in Workers : WorkerStart(w)
  \/ \E w \in Workers : WorkerLoop(w)
  \/ \E w \in Workers : WorkerRead(w, MaxFrames, NoReadFails)
  \/ \E w \in Workers : WorkerDetect(w, OneCount, OnePreview)
  \/ HealthWake
  \/ HealthCheck(MaxWorkers)
  \/ HealthJoin
  \/ HealthRecord
  \/ HealthSleep
  \/ Elapse(MaxTime)

SpecFrame == Init /\ [][NextFrame]_vars

\* SpecClassify: the classification on every capacity of GATE_CONFIG and on
\* 1..MaxCapacity, with counts 0..MaxCount and around both thresholds
Capacities == (1..MaxCapacity) \cup {GATE_CONFIG[g].capacity : g \in DOMAIN GATE_CONFIG}
CountsFor(capacity) ==
  (0..MaxCount) \cup {(4 * capacity) \div 5 + d : d \in -1..1}
                \cup {capacity + d : d \in -1..1}

InitClassify ==
  /\ InitProgram
  /\ \E capacity \in Capacities : \E count \in CountsFor(capacity) :
       classified = [capacity |-> capacity, count |-> count, status |-> "-"]

SpecClassify == InitClassify /\ [][Classify]_vars

(* ------------------------------ claims -------------------------------- *)
LiveWorkers(g) == {w \in Workers : IsAlive(workers, w) /\ workers[w].gate = g}

\* a worker of a session that a later Connect or restart of the same gate has
\* replaced: the new queue was allocated in the step that started the newer worker
Superseded(w) ==
  \E v \in Workers : v > w /\ Spawned(workers, v) /\ workers[v].gate = workers[w].gate

\* C1: in every reachable state each gate has at most one live worker (started
\* and not yet stopped).
C1_AtMostOneLiveWorker == \A g \in Gates : Cardinality(LiveWorkers(g)) <= 1

\* C2: once a later Connect of the gate has allocated its new channel, no status
\* poll of the gate returns a result published by the earlier session's worker.
C2_NoStaleResult ==
  \A g \in Gates : StatusReply(g).by # 0 => ~Superseded(StatusReply(g).by)

\* C3: two Connect calls for the same gate never run at the same time: one has
\* recorded its worker handle before the other takes its first step.
C3_ConnectsSerialized ==
  \A h, k \in Handlers :
    (h # k /\ handlers[h].op = "connect" /\ handlers[k].op = "connect")
      => handlers[h].gate # handlers[k].gate

NoSessionEntry ==
  /\ DOMAIN active_cameras = {}
  /\ DOMAIN camera_queues = {}
  /\ DOMAIN camera_threads = {}
  /\ DOMAIN camera_captures = {}
  /\ DOMAIN camera_last_update = {}

\* C4: when Disconnect("all") returns and no Connect ran during it, no gate has
\* an active flag, channel, worker handle, capture handle or last-update entry.
C4_DisconnectAllEmpties ==
  [][\A h \in Handlers :
       (/\ handlers[h].op = "disconnect_all"
        /\ handlers'[h].op = "idle"
        /\ ~handlers[h].overlapped) => NoSessionEntry']_vars

NeverConnected(g) == \A w \in Workers : workers[w].gate # g

AbsentStatus ==
  [connected |-> FALSE, count |-> 0, status |-> "disconnected", frame |-> "",
   error |-> "", timestamp |-> NoTimestamp, by |-> 0]

\* C5: for a gate that was never connected every status poll returns count 0,
\* status disconnected, empty preview and empty error, and the poll changes no
\* state.
C5_AbsentGatePoll ==
  /\ [](\A g \in Gates : NeverConnected(g) => StatusReply(g) = AbsentStatus)
  /\ [][\A g \in Gates :
          (NeverConnected(g) /\ GetCameraStatus(g)) => UNCHANGED vars]_vars

\* a never-connected gate is polled as absent while another gate has a session
\* with a published result waiting
C5_Witness ==
  /\ NeverConnected("B")
  /\ StatusReply("B") = AbsentStatus
  /\ HasResult("A")
  /\ StatusReply("A").status = "overcrowded"

\* cap.read() of worker w returns in this step
ReadReturns(w) == workers[w].pc = "read" /\ workers'[w] # workers[w]
ReadSucceeded(w) == workers'[w].frame_count = workers[w].frame_count + 1

\* C6 as claimed: a failed read below the limit leaves the worker running, a
\* successful read resets the counter, and the failed read that exceeds the
\* limit publishes a disconnected status with an error and stops the worker.
C6_RetryLimitPublishes ==
  [][\A w \in Workers : ReadReturns(w) =>
       LET g == workers[w].gate
           retries == workers'[w].retry_count
       IN
       IF ReadSucceeded(w)
         THEN retries = 0 /\ workers'[w].pc # "stopped"
         ELSE /\ retries = workers[w].retry_count + 1
              /\ retries <= max_retries => workers'[w].pc = "loop"
              /\ retries > max_retries =>
                   /\ workers'[w].pc = "stopped"
                   /\ Has(camera_queues, g)
                   /\ camera_queues'[g] = Append(camera_queues[g], ErrorResult(w))]_vars

\* C6 amended: the same, the status being published when the gate still has a
\* channel and nothing being published when a Disconnect has removed it.
C6_RetryLimit ==
  [][\A w \in Workers : ReadReturns(w) =>
       LET g == workers[w].gate
           retries == workers'[w].retry_count
       IN
       IF ReadSucceeded(w)
         THEN retries = 0 /\ workers'[w].pc # "stopped"
         ELSE /\ retries = workers[w].retry_count + 1
              /\ retries <= max_retries => workers'[w].pc = "loop"
              /\ retries > max_retries =>
                   /\ workers'[w].pc = "stopped"
                   /\ ErrorResult(w).status = "disconnected"
                   /\ ErrorResult(w).error # ""
                   /\ IF Has(camera_queues, g)
                        THEN camera_queues'[g] =
                               Append(camera_queues[g], ErrorResult(w))
                        ELSE camera_queues' = camera_queues]_vars

\* a worker stopped by the retry limit after a Disconnect removed its channel
C6_Witness ==
  \E w \in Workers :
    /\ workers[w].pc = "stopped"
    /\ workers[w].retry_count = max_retries + 1
    /\ ~Has(camera_queues, workers[w].gate)

\* C7: a worker that has read K frames successfully has made exactly
\* floor(K / 2) detection calls.
C7_Decimation ==
  \A w \in Workers :
    workers[w].detections = workers[w].frame_count \div PROCESS_EVERY_N_FRAMES

\* four frames read and two detection calls, the first result published and
\* the channel removed before the last frame was read
C7_Witness ==
  \E w \in Workers :
    /\ workers[w].frame_count = 4
    /\ workers[w].detections = 2
    /\ workers[w].last_processed_time > 0
    /\ ~Has(camera_queues, workers[w].gate)

\* the health monitor starts a restart of gate g in this step
HealthRestarts(g) ==
  /\ health.pc = "pass"
  /\ health'.pc \in {"join", "record"}
  /\ health'.gate = g

\* C8: the health monitor does not restart a gate again while the worker of its
\* previous restart has not had a chance to publish (it is still opening the
\* stream).
C8_NoDuplicateRestart ==
  [][\A g \in Gates : HealthRestarts(g) =>
       ~\E w \in Workers : /\ workers[w].gate = g
                           /\ workers[w].by = "health"
                           /\ workers[w].pc = "start"]_vars

\* C9: the status published for count n at capacity C is overcrowded iff n > C,
\* warning iff 0.8 C < n <= C, and normal otherwise.
C9_Classification ==
  LET n == classified.count
      C == classified.capacity
  IN classified.status # "-" =>
       /\ classified.status = "overcrowded" <=> n > C
       /\ classified.status = "warning" <=> (4 * C < 5 * n /\ n <= C)
       /\ classified.status = "normal" <=> 5 * n <= 4 * C

\* gate A's capacity with a count just above 0.8 of it
C9_Witness == classified = [capacity |-> 200, count |-> 161, status |-> "warning"]

\* C10: a worker whose session's active flag has been cleared (a newer session
\* of the gate exists) exits at its next loop test; it does not go on reading.
C10_CancelledWorkerExits ==
  [][\A w \in Workers :
       (Superseded(w) /\ workers[w].pc = "loop")
         => workers'[w].pc \in {"loop", "stopped"}]_vars

\* the result put on the gate's queue last
NewestResult(g) == camera_queues[g][Len(camera_queues[g])]

\* C11: a status poll of a gate returns the most recently published result of
\* the gate: with several results waiting, the newest of them.
C11_PollReturnsNewest ==
  \A g \in Gates :
    HasResult(g) =>
      /\ StatusReply(g).count = NewestResult(g).count
      /\ StatusReply(g).status = NewestResult(g).status
      /\ StatusReply(g).frame = NewestResult(g).frame
      /\ NewestResult(g).timestamp # NoTimestamp
           => StatusReply(g).timestamp = NewestResult(g).timestamp

\* C16: whenever a worker has published a result, the gate's last-update time
\* has been set to the time of that publication: the time the health monitor
\* reads is never older than a published result.
C16_LastUpdateFollowsPublish ==
  \A g \in Gates :
    Has(camera_queues, g) =>
      \A i \in 1..Len(camera_queues[g]) :
        camera_queues[g][i].timestamp # NoTimestamp =>
          /\ Has(camera_last_update, g)
          /\ camera_last_update[g] >= camera_queues[g][i].timestamp

\* a status poll takes gate g's waiting result in this step
PollTakes(g) ==
  /\ HasResult(g)
  /\ Has(camera_queues', g)
  /\ camera_queues'[g] = Tail(camera_queues[g])

\* C12: within one gate the results successive status polls receive are in
\* non-decreasing order of their processing timestamps: of two processed
\* frames' results, the one the next poll returns was not processed before the
\* one this poll returned.
C12_PollsInTimeOrder ==
  [][\A g \in Gates :
       (/\ PollTakes(g)
        /\ Len(camera_queues[g]) >= 2
        /\ camera_queues[g][1].timestamp # NoTimestamp
        /\ camera_queues[g][2].timestamp # NoTimestamp)
         => StatusReply(g)'.timestamp >= StatusReply(g).timestamp]_vars

\* C13: a worker that opened a capture has released that capture when it is
\* stopped, on every termination path, and a worker's exit releases no capture
\* that another, still running worker opened.
C13_OwnCaptureReleased ==
  /\ [](\A w \in Workers : workers[w].pc = "stopped" => captures[w] # "open")
  /\ [][\A w, v \in Workers :
          (/\ w # v
           /\ IsAlive(workers, w) /\ workers'[w].pc = "stopped"
           /\ IsAlive(workers, v) /\ captures[v] = "open")
            => captures'[v] = "open"]_vars

\* worker w leaves the resolve-and-open part of camera_worker in this step
OpenReturns(w) == workers[w].pc = "start" /\ workers'[w].pc # "start"
FailsToResolve(w) == ~Resolves(mobile_devices, workers[w].gate, workers[w].source)
OpenFailed(w) == OpenReturns(w) /\ captures'[w] = "none"
ReadNoFrame(w) ==
  /\ workers'[w].pc = "stopped"
  /\ workers'[w].frame_count = 0
  /\ workers'[w].retry_count = 0

CurrentSource(g) ==
  LET ws == {w \in Workers : Spawned(workers, w) /\ workers[w].gate = g}
  IN IF ws = {} THEN "-"
     ELSE workers[CHOOSE w \in ws : \A v \in ws : v <= w].source

\* C15: the health monitor restarts only stalled mobile sessions: a gate whose
\* current session has a fixed source (device index or URL) is never torn down,
\* and a restart begins only for a registered gate whose flag is set, whose
\* queue is empty and whose last update is more than 10 s old.
C15_OnlyMobileRestarted ==
  [][\A g \in Gates : HealthRestarts(g) =>
       /\ CurrentSource(g) = "mobile"
       /\ Has(mobile_devices, g)
       /\ NeedsRestart(g)]_vars

\* the monitor ends a pass in this step
PassEnds == health.pc \in {"pass", "join", "record"} /\ health'.pc = "sleep"

\* C17: a failure in the check of one gate does not end the pass: when the
\* pass ends, every gate with a registration has been checked in it.
C17_FailureIsolatedPerGate ==
  [][PassEnds => health'.todo = {}]_vars

\* C18: a running worker stops only through a failed open, exhausted read
\* retries or deactivation; after detection (failed or not) and preview
\* encoding (failed or not) it goes on running, and with a queue to publish to
\* it publishes a status other than disconnected for the frame.
C18_OnlyThreeWaysToStop ==
  [][\A w \in Workers :
       LET g == workers[w].gate IN
       /\ (IsAlive(workers, w) /\ workers'[w].pc = "stopped") =>
            \/ workers[w].pc = "start"
            \/ workers[w].pc = "read" /\ RetriesExhausted(workers'[w].retry_count)
            \/ workers[w].pc = "loop" /\ ~SessionActive(active_cameras, g)
       /\ (workers[w].pc = "detect" /\ workers'[w] # workers[w]
           /\ Has(camera_queues, g)) =>
            /\ Len(camera_queues'[g]) = Len(camera_queues[g]) + 1
            /\ camera_queues'[g][Len(camera_queues'[g])].status # "disconnected"]_vars

\* gate g has no entry in any of the session dictionaries
NoEntry(g) ==
  /\ ~Has(active_cameras, g)
  /\ ~Has(camera_queues, g)
  /\ ~Has(camera_threads, g)
  /\ ~Has(camera_captures, g)
  /\ ~Has(camera_last_update, g)

\* a Connect of gate g allocates the session in this step
ConnectStep(g) ==
  \E h \in Handlers :
    /\ handlers'[h].op = "connect"
    /\ handlers'[h].pc = "record"
    /\ handlers'[h].gate = g
    /\ handlers[h].pc # "record"

\* C19: once Disconnect(gate) has removed the gate's entries, and until the
\* next Connect(gate), no worker is started for the gate, none of its entries
\* reappears, and a status poll returns the default disconnected status.
C19_DisconnectedStaysDisconnected ==
  /\ [](\A g \in Gates : NoEntry(g) => StatusReply(g) = AbsentStatus)
  /\ [][\A g \in Gates :
          (NoEntry(g) /\ ~ConnectStep(g)) =>
            /\ NoEntry(g)'
            /\ \A w \in Workers :
                 (~Spawned(workers, w) /\ Spawned(workers', w))
                   => workers'[w].gate # g]_vars

\* C20: no worker reads a frame from a capture that has been released: a
\* worker that calls cap.read() holds a capture that is open.
C20_NoReadAfterRelease ==
  [][\A w \in Workers :
       (workers[w].pc = "loop" /\ workers'[w].pc = "read")
         => captures[w] = "open"]_vars

\* C21: a status poll takes at most one result per gate off the queue, the
\* oldest one, and returns it (publishing puts a result at the end of the
\* queue); with an empty queue the poll returns the default disconnected status
\* with count 0 and leaves the queue and the last-update time as they are, also
\* for an active session that has published before.
C21_PollTakesOldest ==
  [][\A g \in Gates :
       /\ GetCameraStatus(g) =>
            IF HasResult(g)
              THEN /\ camera_queues' =
                        [camera_queues EXCEPT ![g] = Tail(camera_queues[g])]
                   /\ StatusReply(g).count = camera_queues[g][1].count
                   /\ StatusReply(g).status = camera_queues[g][1].status
                   /\ StatusReply(g).frame = camera_queues[g][1].frame
                   /\ StatusReply(g).error = camera_queues[g][1].error
              ELSE /\ StatusReply(g).status = "disconnected"
                   /\ StatusReply(g).count = 0
                   /\ StatusReply(g).frame = ""
                   /\ UNCHANGED <<camera_queues, camera_last_update>>
       /\ (/\ Has(camera_queues, g) /\ Has(camera_queues', g)
           /\ Len(camera_queues'[g]) > Len(camera_queues[g])) =>
            camera_queues'[g] =
              Append(camera_queues[g], camera_queues'[g][Len(camera_queues'[g])])]_vars

\* an active session whose two published results the polls have taken: the
\* queue is empty again and the poll answers with the default status
C21_Witness ==
  \E w \in Workers :
    /\ workers[w].gate = "A"
    /\ workers[w].detections = 2
    /\ workers[w].last_processed_time = ShortTime
    /\ SessionActive(active_cameras, "A")
    /\ Has(camera_queues, "A") /\ camera_queues["A"] = << >>
    /\ Has(camera_last_update, "A") /\ camera_last_update["A"] = ShortTime
    /\ StatusReply("A").status = "disconnected"
    /\ StatusReply("A").connected

\* worker w leaves camera_worker in this step though its session is not
\* deactivated: the source could not be opened, the retries ran out, or an
\* exception reached the outer except
SelfStops(w) ==
  /\ workers[w].pc \in {"start", "read", "detect"}
  /\ workers'[w].pc = "stopped"

Lookup(d, g) == IF Has(d, g) THEN <<d[g]>> ELSE << >>

\* this step leaves every entry of gate g as it is: the active flag, the queue,
\* the worker handle, the capture handle, the last update time and the mobile
\* registration
SameEntries(g) ==
  /\ Lookup(active_cameras', g) = Lookup(active_cameras, g)
  /\ Lookup(camera_queues', g) = Lookup(camera_queues, g)
  /\ Lookup(camera_threads', g) = Lookup(camera_threads, g)
  /\ Lookup(camera_captures', g) = Lookup(camera_captures, g)
  /\ Lookup(camera_last_update', g) = Lookup(camera_last_update, g)
  /\ Lookup(mobile_devices', g) = Lookup(mobile_devices, g)

\* C23: a step of Connect(g), of the single-gate Disconnect(g), of the health
\* monitor's restart of g or of a worker of g leaves the active flag, the
\* queue, the worker handle, the capture handle, the last update time and the
\* mobile registration of every other gate as they are.
C23_OtherGatesUntouched ==
  [][/\ Cardinality({g \in Gates : ~SameEntries(g)}) <= 1
     /\ \A g \in Gates :
          (\/ \E h \in Handlers :
                \/ \E req \in ConnectRequests :
                     ConnectBegin(h, g, req, RaceWorkers)
                \/ DisconnectBegin(h, g)
                \/ /\ handlers'[h] # handlers[h]
                   /\ handlers[h].gate = g
           \/ health' # health /\ g \in {health.gate, health'.gate}
           \/ \E w \in Workers :
                /\ Spawned(workers, w)
                /\ workers[w].gate = g
                /\ workers'[w] # workers[w])
            => \A other \in Gates \ {g} : SameEntries(other)]_vars

\* gate A has been disconnected after its worker had opened its capture, and
\* gate B has its session entries, its capture and a worker restarted by the
\* health monitor
C23_Witness ==
  /\ ~Has(active_cameras, "A") /\ ~Has(camera_last_update, "A")
  /\ \E w \in Workers : workers[w].gate = "A" /\ captures[w] = "released"
  /\ SessionActive(active_cameras, "B")
  /\ Has(camera_queues, "B") /\ Has(camera_last_update, "B")
  /\ Has(camera_captures, "B") /\ Has(mobile_devices, "B")
  /\ Has(camera_threads, "B")
  /\ workers[camera_threads["B"]].by = "health"

====
